---------------------------- MODULE Spec2Model ----------------------------
(***************************************************************************)
(* Model of the arch-scheduling controller (controller/controller.go).     *)
(*                                                                         *)
(* The controller watches pods, classifies crash-looping pods whose log is *)
(* the "exec format error" signature, enqueues their namespace/name key on *)
(* a rate-limited work queue, and a worker patches the pod's top-level     *)
(* controller object with a node-affinity exclusion.                       *)
(*                                                                         *)
(* The work queue is k8s.io/client-go/util/workqueue (go.mod pins v0.19.3);*)
(* its code is not part of the repository's sources, so the queue          *)
(* operators below follow section 4.3 of the specification and the         *)
(* library's documented behaviour.                                         *)
(***************************************************************************)
EXTENDS Integers, Sequences, FiniteSets, TLC

(***************************************************************************)
(* Bounds of the model.                                                    *)
(***************************************************************************)
\* Longest owner chain below a pod (pod -> ReplicaSet -> Deployment is 2).
MaxDepth == 2
\* Most containers in a pod of a notification.
MaxContainers == 2
\* The per-key failure counter saturates here; the delay is at its ceiling.
MaxFailures == 3
\* Reconciliation workers sharing the queue in the N-worker specification.
NumWorkers == 2

(***************************************************************************)
(* Program constants.                                                      *)
(***************************************************************************)
\* controller.go:27
errorMessage == "standard_init_linux.go:211: exec user process caused \"exec format error\"\n"
\* controller.go:40
ArchLabel == "beta.kubernetes.io/arch"
\* controller.go:190
CrashLoopBackOff == "CrashLoopBackOff"

\* workqueue.DefaultControllerRateLimiter (controller.go:77): per-item
\* exponential backoff from 5ms doubling to a ceiling of 1000s, here in
\* abstract time units.
BaseDelay == 1
MaxDelay == 4

(***************************************************************************)
(* The cluster: one namespace, two pods, a chain of controller objects and *)
(* three nodes.                                                            *)
(***************************************************************************)
Namespace == "ns"
Pods == {"pod-a", "pod-b"}
Nodes == {"node-arm", "node-amd", "node-bare"}
NoOwner == [kind |-> "", name |-> ""]
NoPod == [absent |-> TRUE]
NotWaiting == -1

\* Labels of a node; node-bare carries no architecture label.
NodeLabels(n) ==
    CASE n = "node-arm" -> [l \in {ArchLabel} |-> "arm64"]
      [] n = "node-amd" -> [l \in {ArchLabel} |-> "amd64"]
      [] OTHER -> [l \in {} |-> ""]

\* Level 1 is the ownerless top of the chain; level i > 1 is controlled by
\* level i - 1.
Levels == 1..MaxDepth
ObjNames == <<"deploy-a", "rs-a", "rs-b", "rs-c", "rs-d">>
ObjKind(i) == IF i = 1 THEN "Deployment" ELSE "ReplicaSet"
ObjName(i) == ObjNames[i]
OwnerRefTo(i) == IF i = 0 THEN NoOwner ELSE [kind |-> ObjKind(i), name |-> ObjName(i)]
ApiObject(i) ==
    [name |-> ObjName(i), namespace |-> Namespace, ownerRef |-> OwnerRefTo(i - 1)]

\* A pod as the informer cache holds it: owned by level `depth` (0: no owner).
PodObject(p, depth, node) ==
    [kind |-> "Pod", name |-> p, namespace |-> Namespace,
     ownerRef |-> OwnerRefTo(depth), nodeName |-> node]

Min(a, b) == IF a < b THEN a ELSE b


(***************************************************************************)
(* Work keys.  A key is the text namespace "/" name, kept as its sequence  *)
(* of segments and separators so that splitting is computed, not assumed.  *)
(***************************************************************************)
\* cache.MetaNamespaceKeyFunc: "<namespace>/<name>", or "<name>" alone when
\* the namespace is empty.
MetaNamespaceKeyFunc(obj) ==
    IF obj.namespace = "" THEN <<obj.name>> ELSE <<obj.namespace, "/", obj.name>>

\* The segments of a key between its "/" separators.
RECURSIVE Segments(_)
Segments(key) ==
    IF key = <<>> THEN <<>>
    ELSE IF Head(key) = "/" THEN Segments(Tail(key))
    ELSE <<Head(key)>> \o Segments(Tail(key))

\* cache.SplitMetaNamespaceKey: one segment is a name, two are namespace and
\* name, anything else is an error.
SplitMetaNamespaceKey(key) ==
    LET parts == Segments(key) IN
    CASE Len(parts) = 1 -> [err |-> FALSE, namespace |-> "", name |-> parts[1]]
      [] Len(parts) = 2 -> [err |-> FALSE, namespace |-> parts[1], name |-> parts[2]]
      [] OTHER -> [err |-> TRUE, namespace |-> "", name |-> ""]

Keys == {MetaNamespaceKeyFunc(PodObject(p, 0, "node-arm")) : p \in Pods}

\* lowercaseAndPluralise: the REST resource path of a kind.
lowercaseAndPluralise(s) ==
    CASE s = "Deployment" -> "deployments"
      [] s = "ReplicaSet" -> "replicasets"
      [] s = "Pod" -> "pods"
      [] OTHER -> s

(***************************************************************************)
(* The rate-limited work queue, as a value.  queue is the FIFO of ready    *)
(* keys, dirty the keys that need processing, processing the keys handed   *)
(* to a worker and not yet Done, waitingForAdd the remaining delay of each *)
(* key's backoff timer (NotWaiting: none), failures the per-key retry      *)
(* counter of the rate limiter.                                            *)
(***************************************************************************)
NewNamedRateLimitingQueue ==
    [queue |-> <<>>, dirty |-> {}, processing |-> {}, shuttingDown |-> FALSE,
     waitingForAdd |-> [k \in Keys |-> NotWaiting],
     failures |-> [k \in Keys |-> 0]]

InQueue(q, item) == \E i \in 1..Len(q.queue) : q.queue[i] = item

\* Add: a key already dirty is dropped; a key being processed is only marked
\* dirty; otherwise it is appended to the queue.
Add(q, item) ==
    IF q.shuttingDown THEN q
    ELSE IF item \in q.dirty THEN q
    ELSE IF item \in q.processing THEN [q EXCEPT !.dirty = @ \cup {item}]
    ELSE [q EXCEPT !.dirty = @ \cup {item}, !.queue = Append(@, item)]

\* Done: the key is no longer processed; if it was marked dirty meanwhile it
\* goes back on the queue.
Done(q, item) ==
    IF item \in q.dirty
    THEN [q EXCEPT !.processing = @ \ {item}, !.queue = Append(@, item)]
    ELSE [q EXCEPT !.processing = @ \ {item}]

\* Forget: clears the key's retry counter.
Forget(q, item) == [q EXCEPT !.failures[item] = 0]

RECURSIVE Pow2(_)
Pow2(n) == IF n = 0 THEN 1 ELSE 2 * Pow2(n - 1)

\* The rate limiter's delay for the key's next retry: base * 2^failures, at
\* most the ceiling.
When(q, item) == Min(BaseDelay * Pow2(q.failures[item]), MaxDelay)

\* AddAfter: a key with a positive delay waits on a timer; a timer already
\* pending for the key keeps the earlier expiry.
AddAfter(q, item, duration) ==
    IF q.shuttingDown THEN q
    ELSE IF duration <= 0 THEN Add(q, item)
    ELSE IF q.waitingForAdd[item] # NotWaiting
         THEN [q EXCEPT !.waitingForAdd[item] = Min(@, duration)]
         ELSE [q EXCEPT !.waitingForAdd[item] = duration]

\* AddRateLimited: AddAfter with the limiter's delay; the limiter counts the
\* failure.
AddRateLimited(q, item) ==
    AddAfter([q EXCEPT !.failures[item] = Min(@ + 1, MaxFailures)], item, When(q, item))

\* ShutDown: no further adds are accepted; Get reports shutdown once drained.
ShutDown(q) == [q EXCEPT !.shuttingDown = TRUE]

(***************************************************************************)
(* The cluster API as the reconciler uses it.  api is the set of levels    *)
(* whose controller object exists.  A fault names the one call of a pass   *)
(* that fails for a transient reason: <<"none">>, <<"lister">>,            *)
(* <<"fetch", hop>>, <<"node">> or <<"patch">>; <<"gone">> is the target   *)
(* being deleted between its resolution and its patch.                     *)
(***************************************************************************)
Faults ==
    {<<"none">>, <<"lister">>, <<"node">>, <<"patch">>, <<"gone">>}
        \cup {<<"fetch", h>> : h \in 1..MaxDepth}

NoCobj == [kind |-> "", name |-> "", namespace |-> ""]
NoBody == [key |-> "", operator |-> "", values |-> <<>>]

Call(op, resource, namespace, name, arg, err) ==
    [op |-> op, resource |-> resource, namespace |-> namespace, name |-> name,
     arg |-> arg, err |-> err]

\* AppsV1().RESTClient().Get().Resource(r).Namespace(ns).Name(n).Do().Get()
RestGet(api, resource, namespace, name) ==
    LET hits == {i \in api : /\ lowercaseAndPluralise(ObjKind(i)) = resource
                             /\ ObjName(i) = name
                             /\ namespace = Namespace}
    IN IF hits = {} THEN [err |-> "NotFound", obj |-> ApiObject(1)]
       ELSE [err |-> "", obj |-> ApiObject(CHOOSE i \in hits : TRUE)]

\* metav1.GetControllerOf: the controlling owner reference, if any.
GetControllerOf(object) == object.ownerRef

\* A resolver that stops at the first owner instead of the top of the chain.
RECURSIVE getOriginFirstOwner(_, _, _, _, _)
getOriginFirstOwner(api, object, kind, fault, hop) ==
    LET ownerRef == GetControllerOf(object) IN
    IF ownerRef # NoOwner /\ hop = 1
    THEN LET resource == lowercaseAndPluralise(ownerRef.kind)
             res == RestGet(api, resource, object.namespace, ownerRef.name)
             err == IF fault = <<"fetch", hop>> THEN "Error" ELSE res.err
             call == Call("get", resource, object.namespace, ownerRef.name, NoBody, err)
         IN IF err # ""
            THEN [err |-> err, cobj |-> NoCobj, calls |-> <<call>>]
            ELSE [err |-> "",
                  cobj |-> [kind |-> ownerRef.kind, name |-> res.obj.name,
                            namespace |-> res.obj.namespace],
                  calls |-> <<call>>]
    ELSE [err |-> "",
          cobj |-> [kind |-> kind, name |-> object.name, namespace |-> object.namespace],
          calls |-> <<>>]

\* A resolver that falls back to the object reached so far when a fetch fails.
RECURSIVE getOriginPartialOnError(_, _, _, _, _)
getOriginPartialOnError(api, object, kind, fault, hop) ==
    LET ownerRef == GetControllerOf(object)
        here == [kind |-> kind, name |-> object.name, namespace |-> object.namespace]
    IN
    IF ownerRef # NoOwner
    THEN LET resource == lowercaseAndPluralise(ownerRef.kind)
             res == RestGet(api, resource, object.namespace, ownerRef.name)
             err == IF fault = <<"fetch", hop>> THEN "Error" ELSE res.err
             call == Call("get", resource, object.namespace, ownerRef.name, NoBody, err)
         IN IF err # ""
            THEN [err |-> "", cobj |-> here, calls |-> <<call>>]
            ELSE LET up == getOriginPartialOnError(api, res.obj, ownerRef.kind,
                                                   fault, hop + 1)
                 IN [up EXCEPT !.calls = <<call>> \o @]
    ELSE [err |-> "", cobj |-> here, calls |-> <<>>]

\* getOriginControllerObject: follow controller owner references upward,
\* fetching each owner, until an object without one; any fetch error is
\* returned at once.
RECURSIVE getOriginControllerObject(_, _, _, _, _)
getOriginControllerObject(api, object, kind, fault, hop) ==
    LET ownerRef == GetControllerOf(object) IN
    IF ownerRef # NoOwner
    THEN LET resource == lowercaseAndPluralise(ownerRef.kind)
             res == RestGet(api, resource, object.namespace, ownerRef.name)
             err == IF fault = <<"fetch", hop>> THEN "Error" ELSE res.err
             call == Call("get", resource, object.namespace, ownerRef.name, NoBody, err)
         IN IF err # ""
            THEN [err |-> err, cobj |-> NoCobj, calls |-> <<call>>]
            ELSE LET up == getOriginControllerObject(api, res.obj, ownerRef.kind,
                                                     fault, hop + 1)
                 IN [up EXCEPT !.calls = <<call>> \o @]
    ELSE [err |-> "",
          cobj |-> [kind |-> kind, name |-> object.name, namespace |-> object.namespace],
          calls |-> <<>>]

\* patchToControllerObject: a strategic-merge patch of the object at the
\* resource path of its kind.
patchToControllerObject(api, obj, patch, fault) ==
    LET resource == lowercaseAndPluralise(obj.kind)
        res == RestGet(api, resource, obj.namespace, obj.name)
        err == IF res.err # "" \/ fault = <<"gone">> THEN "NotFound"
               ELSE IF fault = <<"patch">> THEN "Error" ELSE ""
    IN [err |-> err,
        calls |-> <<Call("patch", resource, obj.namespace, obj.name, patch, err)>>]

\* node.GetLabels()[key]: the empty string when the label is missing.
GetLabel(labels, key) == IF key \in DOMAIN labels THEN labels[key] ELSE ""

\* fmt.Sprintf(patchJSON, value): the NotIn node-affinity term for the value.
patchJSON(value) ==
    [key |-> ArchLabel, operator |-> "NotIn", values |-> <<value>>]

\* podListener.Pods(namespace).Get(name)
ListerGet(cache, namespace, name, fault) ==
    IF fault = <<"lister">> THEN [err |-> "Error", pod |-> NoPod]
    ELSE IF namespace = Namespace /\ name \in Pods /\ cache[name] # NoPod
    THEN [err |-> "", pod |-> cache[name]]
    ELSE [err |-> "NotFound", pod |-> NoPod]

\* A reconciliation that refuses a node without the architecture label.
ReconcileRequireLabel(pod, api, fault) ==
    LET c == getOriginControllerObject(api, pod, pod.kind, fault, 1) IN
    IF c.err # "" THEN [err |-> c.err, calls |-> c.calls]
    ELSE
    LET label == GetLabel(NodeLabels(pod.nodeName), ArchLabel)
        nodeErr == IF fault = <<"node">> \/ label = "" THEN "Error" ELSE ""
        nodeCall == Call("getNode", "nodes", "", pod.nodeName, NoBody, "") IN
    IF nodeErr # "" THEN [err |-> nodeErr, calls |-> c.calls \o <<nodeCall>>]
    ELSE
    LET p == patchToControllerObject(api, c.cobj, patchJSON(label), fault)
    IN [err |-> p.err, calls |-> c.calls \o <<nodeCall>> \o p.calls]

\* The body of reSchedulePod after the pod is read from the cache.
Reconcile(pod, api, fault) ==
    LET c == getOriginControllerObject(api, pod, pod.kind, fault, 1) IN
    IF c.err # "" THEN [err |-> c.err, calls |-> c.calls]
    ELSE
    LET nodeErr == IF fault = <<"node">> THEN "Error" ELSE ""
        nodeCall == Call("getNode", "nodes", "", pod.nodeName, NoBody, nodeErr) IN
    IF nodeErr # "" THEN [err |-> nodeErr, calls |-> c.calls \o <<nodeCall>>]
    ELSE
    LET patchString == patchJSON(GetLabel(NodeLabels(pod.nodeName), ArchLabel))
        p == patchToControllerObject(api, c.cobj, patchString, fault)
    IN [err |-> p.err, calls |-> c.calls \o <<nodeCall>> \o p.calls]

\* A reconciliation that returns the lister's not-found as an error.
reSchedulePodMissingIsError(key, cache, api, fault) ==
    LET k == SplitMetaNamespaceKey(key)
        got == ListerGet(cache, k.namespace, k.name, fault)
        look == <<Call("lister", "pods", k.namespace, k.name, NoBody, got.err)>> IN
    IF k.err THEN [err |-> "", calls |-> <<>>]
    ELSE IF got.err # "" THEN [err |-> got.err, calls |-> look]
    ELSE LET r == Reconcile(got.pod, api, fault)
         IN [r EXCEPT !.calls = look \o @]

\* A reconciliation that returns nil whatever its calls returned.
reSchedulePodSwallow(key, cache, api, fault) ==
    LET k == SplitMetaNamespaceKey(key)
        got == ListerGet(cache, k.namespace, k.name, fault)
        look == <<Call("lister", "pods", k.namespace, k.name, NoBody, got.err)>> IN
    IF k.err THEN [err |-> "", calls |-> <<>>]
    ELSE IF got.err # "" THEN [err |-> "", calls |-> look]
    ELSE LET r == Reconcile(got.pod, api, fault)
         IN [err |-> "", calls |-> look \o r.calls]

\* reSchedulePod: one reconciliation of a key.  The result is the error the
\* pass returns ("" for nil) and the calls it made, in order: the cache
\* lookup ("lister"), the owner fetches ("get"), the node read ("getNode")
\* and the patch ("patch").
reSchedulePod(key, cache, api, fault) ==
    LET k == SplitMetaNamespaceKey(key) IN
    IF k.err THEN [err |-> "", calls |-> <<>>]
    ELSE
    LET got == ListerGet(cache, k.namespace, k.name, fault)
        look == <<Call("lister", "pods", k.namespace, k.name, NoBody, got.err)>> IN
    IF got.err = "NotFound" THEN [err |-> "", calls |-> look]
    ELSE IF got.err # "" THEN [err |-> got.err, calls |-> look]
    ELSE LET r == Reconcile(got.pod, api, fault)
         IN [r EXCEPT !.calls = look \o @]

(***************************************************************************)
(* handleObject: the classifier of a notification.  A pod of a             *)
(* notification carries its containers in order; container i has the       *)
(* status state (waiting or not, with a reason) and the log the API would  *)
(* return for it (a stream error, a read error, or its content).           *)
(***************************************************************************)
ContainerStates ==
    {[waiting |-> TRUE, reason |-> CrashLoopBackOff],
     [waiting |-> TRUE, reason |-> "ImagePullBackOff"],
     [waiting |-> FALSE, reason |-> ""]}

\* The signature, an empty log, another crash, and the signature without its
\* final line break.
LogContents ==
    {errorMessage,
     "",
     "some other crash\n",
     "standard_init_linux.go:211: exec user process caused \"exec format error\""}

LogOutcomes ==
    {[streamErr |-> TRUE, readErr |-> FALSE, content |-> ""],
     [streamErr |-> FALSE, readErr |-> TRUE, content |-> ""]}
        \cup {[streamErr |-> FALSE, readErr |-> FALSE, content |-> c] : c \in LogContents}

Containers == [state : ContainerStates, log : LogOutcomes]

SeqsUpTo(S, n) == UNION {[1..m -> S] : m \in 0..n}

\* An inner loop that gives the pod up at the first log it cannot read.
RECURSIVE ScanLogsAbortOnError(_, _)
ScanLogsAbortOnError(cts, j) ==
    IF j > Len(cts) THEN [matched |-> FALSE, reads |-> <<>>]
    ELSE LET log == cts[j].log IN
         IF log.streamErr \/ log.readErr
         THEN [matched |-> FALSE, reads |-> <<j>>]
         ELSE IF log.content = errorMessage
         THEN [matched |-> TRUE, reads |-> <<j>>]
         ELSE LET rest == ScanLogsAbortOnError(cts, j + 1)
              IN [rest EXCEPT !.reads = <<j>> \o @]

\* The inner loop (controller.go:191-218) from container j on: the names of
\* the containers whose log is requested, and whether one equals the
\* signature (the scan returns there).
RECURSIVE ScanLogs(_, _)
ScanLogs(cts, j) ==
    IF j > Len(cts) THEN [matched |-> FALSE, reads |-> <<>>]
    ELSE LET log == cts[j].log IN
         IF log.streamErr \/ log.readErr
         THEN LET rest == ScanLogs(cts, j + 1)
              IN [rest EXCEPT !.reads = <<j>> \o @]
         ELSE IF log.content = errorMessage
         THEN [matched |-> TRUE, reads |-> <<j>>]
         ELSE LET rest == ScanLogs(cts, j + 1)
              IN [rest EXCEPT !.reads = <<j>> \o @]

\* The outer loop (controller.go:189-220) from container status i on.
RECURSIVE ScanStatuses(_, _)
ScanStatuses(cts, i) ==
    IF i > Len(cts) THEN [matched |-> FALSE, reads |-> <<>>]
    ELSE LET cs == cts[i].state IN
         IF cs.waiting /\ cs.reason = CrashLoopBackOff
         THEN LET inner == ScanLogs(cts, 1) IN
              IF inner.matched THEN inner
              ELSE LET rest == ScanStatuses(cts, i + 1)
                   IN [rest EXCEPT !.reads = inner.reads \o @]
         ELSE ScanStatuses(cts, i + 1)

\* handleObject: whether enqueuePod is called for the pod, and the log reads
\* made on the way.
handleObject(cts) == ScanStatuses(cts, 1)

\* An enqueue that appends the key to the queue without asking whether it
\* is there.
enqueuePodAppend(q, pod) ==
    [q EXCEPT !.dirty = @ \cup {MetaNamespaceKeyFunc(pod)},
              !.queue = Append(@, MetaNamespaceKeyFunc(pod))]

\* enqueuePod: the pod's key is added to the queue.
enqueuePod(q, pod) == Add(q, MetaNamespaceKeyFunc(pod))

(***************************************************************************)
(* State.                                                                  *)
(*   workqueue  the controller's rate-limited work queue                   *)
(*   podCache   the informer cache the lister reads (NoPod: not cached)    *)
(*   api        the levels whose controller object exists in the cluster   *)
(*   setup      what a specification fixes: the workers running            *)
(*              processEnqueuedItem, the pods the cluster creates and the  *)
(*              owner depths and nodes they are created with, where Run    *)
(*              starts ("sync": at its wait for the cache; "get": in its   *)
(*              loop), and what of the history is followed                 *)
(*   wpc, wkey  each worker's position and the key it holds                *)
(*   pass       what the worker's current pass did: the error of           *)
(*              reSchedulePod, the API calls, the queue signals            *)
(*   lastDelay  the delay of the key's latest AddRateLimited since Forget  *)
(*   elapsed    the time passed since then, counted up to lastDelay        *)
(*   taint      a notification added the key while it was being processed  *)
(*              or had a timer pending, and that add or timer is still     *)
(*              outstanding                                                *)
(*   lastNotif  the latest notification and what handleObject did with it  *)
(*              (recorded by the classifier specification only)            *)
(*   stopCh     the stop channel given to Run is closed                    *)
(*   hasSynced  the pod informer reports its cache synced                  *)
(*   affinity   for each object a patch can target, the node selector      *)
(*              terms the cluster stores for it and the latest patches     *)
(*              applied to it, each with the terms stored after it (the    *)
(*              program never reads them back; they are                    *)
(*              followed only where setup.track names them)                *)
(*   lastFailed the API calls of the key's latest failed pass, until a     *)
(*              pass of the key succeeds (followed only where setup.track  *)
(*              names it)                                                  *)
(***************************************************************************)
VARIABLES workqueue, podCache, api, setup, wpc, wkey, pass,
          lastDelay, elapsed, taint, lastNotif,
          stopCh, hasSynced, affinity, lastFailed

vars == <<workqueue, podCache, api, setup, wpc, wkey, pass,
          lastDelay, elapsed, taint, lastNotif,
          stopCh, hasSynced, affinity, lastFailed>>

\* The stop channel and the informer's readiness.
lifecycle == <<stopCh, hasSynced>>
\* What is followed of the cluster and of earlier passes.
history == <<affinity, lastFailed>>

Workers == 1..NumWorkers
NoKey == <<>>
EmptyPass == [err |-> "", calls |-> <<>>, signals |-> <<>>]
NoNotif ==
    [pod |-> "", old |-> <<>>, containers |-> <<>>, sameRv |-> FALSE,
     classified |-> FALSE, enqueued |-> FALSE, reads |-> <<>>]
Revisions == {"1", "2"}

\* Containers of the notifications of the reconciliation specifications: a
\* crash-looping container with the signature, one with another log, and a
\* running container whose log is the signature.
WatchedContainers ==
    {[state |-> [waiting |-> TRUE, reason |-> CrashLoopBackOff],
      log |-> [streamErr |-> FALSE, readErr |-> FALSE, content |-> errorMessage]],
     [state |-> [waiting |-> TRUE, reason |-> CrashLoopBackOff],
      log |-> [streamErr |-> FALSE, readErr |-> FALSE, content |-> "some other crash\n"]],
     [state |-> [waiting |-> FALSE, reason |-> ""],
      log |-> [streamErr |-> FALSE, readErr |-> FALSE, content |-> errorMessage]]}

\* The objects a patch can target: the top-level controller object, and a
\* pod without an owner.
Targets == {ObjName(1)} \cup Pods
NoAffinity == [terms |-> <<>>, applied |-> <<>>]

InitWith(su) ==
    /\ workqueue = NewNamedRateLimitingQueue
    /\ podCache = [p \in Pods |-> NoPod]
    /\ api = Levels
    /\ setup = su
    /\ wpc = [w \in Workers |-> su.start]
    /\ wkey = [w \in Workers |-> NoKey]
    /\ pass = [w \in Workers |-> EmptyPass]
    /\ lastDelay = [k \in Keys |-> 0]
    /\ elapsed = [k \in Keys |-> 0]
    /\ taint = [k \in Keys |-> FALSE]
    /\ lastNotif = NoNotif
    /\ stopCh = FALSE
    /\ hasSynced = (su.start = "get")
    /\ affinity = [t \in Targets |-> NoAffinity]
    /\ lastFailed = [k \in Keys |-> <<>>]

\* Run starts one reconciliation loop (controller.go:110).
Init ==
    InitWith([workers |-> {1}, pods |-> {"pod-a"}, depths |-> 0..MaxDepth,
              nodes |-> Nodes,
              start |-> "get", track |-> {}])

\* The calls of a pass with the given operation, and those that failed.
CallsOf(calls, op) == {i \in 1..Len(calls) : calls[i].op = op}
Failed(calls) == {i \in 1..Len(calls) : calls[i].err # ""}

\* The pass reached its patch call.
Patched(r) == \E i \in 1..Len(r.calls) : r.calls[i].op = "patch"

\* The taint of a key ends when no add and no timer of it is outstanding.
Settle(q, t) ==
    [k \in Keys |-> IF k \notin q.dirty /\ q.waitingForAdd[k] = NotWaiting
                    THEN FALSE ELSE t[k]]

\* The handler of a notification for pod (AddFunc, and UpdateFunc past its
\* revision check): classify, and enqueue on a match.  old are the
\* containers of the object the notification replaces (none for an add).
Notify(pod, old, cts, record) ==
    LET r == handleObject(cts)
        key == MetaNamespaceKeyFunc(pod)
        q == IF r.matched THEN enqueuePod(workqueue, pod) ELSE workqueue
        racing == \/ key \in workqueue.processing
                  \/ workqueue.waitingForAdd[key] # NotWaiting
    IN /\ workqueue' = q
       /\ taint' = Settle(q, [taint EXCEPT ![key] = @ \/ (r.matched /\ racing)])
       /\ lastNotif' = IF record
                       THEN [pod |-> pod.name, old |-> old, containers |-> cts,
                             sameRv |-> FALSE, classified |-> TRUE,
                             enqueued |-> r.matched, reads |-> r.reads]
                       ELSE lastNotif

\* AddFunc: the informer caches a new pod and calls handleObject.  The
\* informers are started with the stop channel (controller.go:102) and
\* deliver nothing once it is closed.
AddFunc(p, depth, node, cts, record) ==
    /\ ~stopCh
    /\ p \in setup.pods /\ depth \in setup.depths /\ node \in setup.nodes
    /\ podCache[p] = NoPod
    /\ podCache' = [podCache EXCEPT ![p] = PodObject(p, depth, node)]
    /\ Notify(PodObject(p, depth, node), <<>>, cts, record)
    /\ UNCHANGED <<api, setup, wpc, wkey, pass, lastDelay, elapsed,
                   lifecycle, history>>

\* An update handler without the revision check.
UpdateFuncNoRevisionCheck(p, oldRv, newRv, old, cts, record) ==
    /\ ~stopCh
    /\ podCache[p] # NoPod
    /\ LET r == handleObject(cts)
           q == IF r.matched THEN enqueuePod(workqueue, podCache[p]) ELSE workqueue
       IN /\ workqueue' = q
          /\ taint' = Settle(q, taint)
          /\ lastNotif' = IF record
                          THEN [pod |-> p, old |-> old, containers |-> cts,
                                sameRv |-> (newRv = oldRv), classified |-> TRUE,
                                enqueued |-> r.matched, reads |-> r.reads]
                          ELSE lastNotif
    /\ UNCHANGED <<podCache, api, setup, wpc, wkey, pass, lastDelay, elapsed,
                   lifecycle, history>>

\* UpdateFunc: an update (or resync) of a cached pod, with the containers of
\* the old and of the new object; the handler returns when the revision is
\* unchanged and calls handleObject on the new object otherwise.
UpdateFunc(p, oldRv, newRv, old, cts, record) ==
    /\ ~stopCh
    /\ podCache[p] # NoPod
    /\ IF newRv = oldRv
       THEN /\ UNCHANGED <<workqueue, taint>>
            /\ lastNotif' = IF record
                            THEN [pod |-> p, old |-> old, containers |-> cts,
                                  sameRv |-> TRUE, classified |-> FALSE,
                                  enqueued |-> FALSE, reads |-> <<>>]
                            ELSE lastNotif
       ELSE Notify(podCache[p], old, cts, record)
    /\ UNCHANGED <<podCache, api, setup, wpc, wkey, pass, lastDelay, elapsed,
                   lifecycle, history>>

\* The pod is deleted; no handler is registered for deletions.
DeletePod(p) ==
    /\ ~stopCh
    /\ podCache[p] # NoPod
    /\ podCache' = [podCache EXCEPT ![p] = NoPod]
    /\ affinity' = [affinity EXCEPT ![p] = NoAffinity]
    /\ UNCHANGED <<workqueue, api, setup, wpc, wkey, pass, lastDelay, elapsed,
                   taint, lastNotif, lifecycle, lastFailed>>

\* The top-level controller object is deleted from the cluster.
DeleteObject(i) ==
    /\ i \in api
    /\ i = 1
    /\ api' = api \ {i}
    /\ affinity' = [affinity EXCEPT ![ObjName(i)] = NoAffinity]
    /\ UNCHANGED <<workqueue, podCache, setup, wpc, wkey, pass, lastDelay,
                   elapsed, taint, lastNotif, lifecycle, lastFailed>>

\* Time passes by one unit while no timer is due.
Tick ==
    /\ \E k \in Keys : workqueue.waitingForAdd[k] > 0
    /\ \A k \in Keys : workqueue.waitingForAdd[k] # 0
    /\ workqueue' = [workqueue EXCEPT !.waitingForAdd =
                        [k \in Keys |-> IF @[k] > 0 THEN @[k] - 1 ELSE @[k]]]
    /\ elapsed' = [k \in Keys |-> IF elapsed[k] < lastDelay[k]
                                  THEN elapsed[k] + 1 ELSE elapsed[k]]
    /\ UNCHANGED <<podCache, api, setup, wpc, wkey, pass, lastDelay, taint,
                   lastNotif,
                   lifecycle, history>>

\* The delaying queue adds a key whose timer is due.
TimerFire(k) ==
    /\ workqueue.waitingForAdd[k] = 0
    /\ LET q == Add([workqueue EXCEPT !.waitingForAdd[k] = NotWaiting], k)
       IN /\ workqueue' = q
          /\ taint' = Settle(q, taint)
    /\ UNCHANGED <<podCache, api, setup, wpc, wkey, pass, lastDelay, elapsed,
                   lastNotif,
                   lifecycle, history>>

\* A Get followed at once by Done, not by a Done deferred to the end of the
\* pass: the key is not kept in the processing set.
GetDoneAtOnce(w) ==
    /\ w \in setup.workers
    /\ wpc[w] = "get"
    /\ IF Len(workqueue.queue) > 0
       THEN LET item == Head(workqueue.queue)
                q == [workqueue EXCEPT !.queue = Tail(@),
                                       !.dirty = @ \ {item}]
            IN /\ workqueue' = q
               /\ taint' = Settle(q, taint)
               /\ wkey' = [wkey EXCEPT ![w] = item]
               /\ wpc' = [wpc EXCEPT ![w] = "process"]
       ELSE /\ workqueue.shuttingDown
            /\ wpc' = [wpc EXCEPT ![w] = "exited"]
            /\ UNCHANGED <<workqueue, taint, wkey>>
    /\ UNCHANGED <<podCache, api, setup, pass, lastDelay, elapsed, lastNotif,
                   lifecycle, history>>

\* processEnqueuedItem, controller.go:117-120: Get takes the head of the
\* queue; on shutdown of a drained queue the loop ends.
Get(w) ==
    /\ w \in setup.workers
    /\ wpc[w] = "get"
    /\ IF Len(workqueue.queue) > 0
       THEN LET item == Head(workqueue.queue)
                q == [workqueue EXCEPT !.queue = Tail(@),
                                       !.processing = @ \cup {item},
                                       !.dirty = @ \ {item}]
            IN /\ workqueue' = q
               /\ taint' = Settle(q, taint)
               /\ wkey' = [wkey EXCEPT ![w] = item]
               /\ wpc' = [wpc EXCEPT ![w] = "process"]
       ELSE /\ workqueue.shuttingDown
            /\ wpc' = [wpc EXCEPT ![w] = "exited"]
            /\ UNCHANGED <<workqueue, taint, wkey>>
    /\ UNCHANGED <<podCache, api, setup, pass, lastDelay, elapsed, lastNotif,
                   lifecycle, history>>

\* A pass that requeues a failed key with Add, not AddRateLimited.
SignalOutcomeRequeueAtOnce(w, key, r) ==
    IF r.err # ""
    THEN /\ workqueue' = Add(workqueue, key)
         /\ pass' = [pass EXCEPT ![w] =
              [err |-> r.err, calls |-> r.calls, signals |-> <<"AddRateLimited">>]]
         /\ lastDelay' = [lastDelay EXCEPT ![key] = When(workqueue, key)]
         /\ elapsed' = [elapsed EXCEPT ![key] = 0]
    ELSE /\ workqueue' = Forget(workqueue, key)
         /\ pass' = [pass EXCEPT ![w] =
              [err |-> "", calls |-> r.calls, signals |-> <<"Forget">>]]
         /\ lastDelay' = [lastDelay EXCEPT ![key] = 0]
         /\ elapsed' = [elapsed EXCEPT ![key] = 0]

\* A pass that gives a key up once it has failed twice: it forgets the key
\* and does not requeue it.
SignalOutcomeGiveUp(w, key, r) ==
    IF r.err # "" /\ workqueue.failures[key] < 2
    THEN /\ workqueue' = AddRateLimited(workqueue, key)
         /\ pass' = [pass EXCEPT ![w] =
              [err |-> r.err, calls |-> r.calls, signals |-> <<"AddRateLimited">>]]
         /\ lastDelay' = [lastDelay EXCEPT ![key] = When(workqueue, key)]
         /\ elapsed' = [elapsed EXCEPT ![key] = 0]
    ELSE /\ workqueue' = Forget(workqueue, key)
         /\ pass' = [pass EXCEPT ![w] =
              [err |-> r.err, calls |-> r.calls, signals |-> <<"Forget">>]]
         /\ lastDelay' = [lastDelay EXCEPT ![key] = 0]
         /\ elapsed' = [elapsed EXCEPT ![key] = 0]

\* A pass that does not return after AddRateLimited and goes on to Forget.
SignalOutcomeFallsThrough(w, key, r) ==
    IF r.err # ""
    THEN /\ workqueue' = Forget(AddRateLimited(workqueue, key), key)
         /\ pass' = [pass EXCEPT ![w] =
              [err |-> r.err, calls |-> r.calls,
               signals |-> <<"AddRateLimited", "Forget">>]]
         /\ lastDelay' = [lastDelay EXCEPT ![key] = When(workqueue, key)]
         /\ elapsed' = [elapsed EXCEPT ![key] = 0]
    ELSE /\ workqueue' = Forget(workqueue, key)
         /\ pass' = [pass EXCEPT ![w] =
              [err |-> "", calls |-> r.calls, signals |-> <<"Forget">>]]
         /\ lastDelay' = [lastDelay EXCEPT ![key] = 0]
         /\ elapsed' = [elapsed EXCEPT ![key] = 0]

\* processEnqueuedItem, controller.go:133-138: AddRateLimited and return on
\* an error of reSchedulePod, Forget otherwise.
SignalOutcome(w, key, r) ==
    IF r.err # ""
    THEN /\ workqueue' = AddRateLimited(workqueue, key)
         /\ pass' = [pass EXCEPT ![w] =
              [err |-> r.err, calls |-> r.calls, signals |-> <<"AddRateLimited">>]]
         /\ lastDelay' = [lastDelay EXCEPT ![key] = When(workqueue, key)]
         /\ elapsed' = [elapsed EXCEPT ![key] = 0]
    ELSE /\ workqueue' = Forget(workqueue, key)
         /\ pass' = [pass EXCEPT ![w] =
              [err |-> "", calls |-> r.calls, signals |-> <<"Forget">>]]
         /\ lastDelay' = [lastDelay EXCEPT ![key] = 0]
         /\ elapsed' = [elapsed EXCEPT ![key] = 0]

\* A merge that appends the patch's term to the stored list.
StrategicMergeAppend(terms, patch) == Append(terms, patch)

\* The cluster's strategic merge of the patch into the stored node selector
\* terms: the list has no merge key, so the patch's list replaces it.
StrategicMergePatch(terms, patch) == <<patch>>

\* The latest two of the patches applied to an object.
LastTwo(applied) == IF Len(applied) > 2 THEN Tail(applied) ELSE applied

\* The stored terms after the pass: a patch call that succeeded is merged
\* into its target.
ClusterAfter(r) ==
    IF "affinity" \in setup.track
       /\ \E i \in CallsOf(r.calls, "patch") : r.calls[i].err = ""
    THEN LET c == r.calls[CHOOSE i \in CallsOf(r.calls, "patch") : TRUE]
             after == StrategicMergePatch(affinity[c.name].terms, c.arg)
         IN [affinity EXCEPT ![c.name] =
                [terms |-> after,
                 applied |-> LastTwo(Append(@.applied,
                                            [patch |-> c.arg, after |-> after]))]]
    ELSE affinity

\* A pass that reads the node the key's latest failed pass had resolved, not
\* the node of the pod as cached now.
ReconcileKeyReusing(key, fault) ==
    LET seen == {i \in CallsOf(lastFailed[key], "getNode") :
                    lastFailed[key][i].err = ""}
        stale(pod) ==
            IF pod = NoPod \/ seen = {} THEN pod
            ELSE [pod EXCEPT !.nodeName = lastFailed[key][CHOOSE i \in seen : TRUE].name]
    IN reSchedulePod(key, [p \in Pods |-> stale(podCache[p])], api, fault)

\* c.reSchedulePod(key), controller.go:133: the pass works on the key alone,
\* and reads the cache and the cluster as they are when it runs.
ReconcileKey(key, fault) == reSchedulePod(key, podCache, api, fault)

\* processEnqueuedItem, controller.go:127-140: reconcile the key, then
\* AddRateLimited on an error and Forget otherwise.  (Every item is a key,
\* so the type check of line 127 passes.)
Process(w, fault) ==
    /\ wpc[w] = "process"
    /\ LET key == wkey[w]
           r == ReconcileKey(key, fault)
       IN /\ SignalOutcome(w, key, r)
          /\ api' = IF fault = <<"gone">> /\ Patched(r) THEN api \ {1} ELSE api
          /\ affinity' = ClusterAfter(r)
          /\ lastFailed' = IF "failed" \in setup.track /\ r.err # ""
                           THEN [lastFailed EXCEPT ![key] = r.calls]
                           ELSE lastFailed
    /\ wpc' = [wpc EXCEPT ![w] = "done"]
    /\ UNCHANGED <<podCache, setup, wkey, taint, lastNotif, lifecycle>>

\* The end of a pass without the deferred Done.
DoneStepWithoutDone(w) ==
    /\ wpc[w] = "done"
    /\ wpc' = [wpc EXCEPT ![w] = "get"]
    /\ wkey' = [wkey EXCEPT ![w] = NoKey]
    /\ pass' = [pass EXCEPT ![w] = EmptyPass]
    /\ UNCHANGED <<workqueue, taint, podCache, api, setup, lastDelay, elapsed,
                   lastNotif,
                   lifecycle, history>>

\* processEnqueuedItem, controller.go:123 and 143-148: the deferred Done,
\* and the loop goes on.
DoneStep(w) ==
    /\ wpc[w] = "done"
    /\ LET q == Done(workqueue, wkey[w])
       IN /\ workqueue' = q
          /\ taint' = Settle(q, taint)
    /\ wpc' = [wpc EXCEPT ![w] = "get"]
    /\ wkey' = [wkey EXCEPT ![w] = NoKey]
    /\ pass' = [pass EXCEPT ![w] = EmptyPass]
    /\ lastFailed' = IF pass[w].err = ""
                     THEN [lastFailed EXCEPT ![wkey[w]] = <<>>]
                     ELSE lastFailed
    /\ UNCHANGED <<podCache, api, setup, lastDelay, elapsed, lastNotif,
                   lifecycle, affinity>>

\* The pods of those notifications have one container.
WatchedPods == {<<c>> : c \in WatchedContainers}

Next ==
    \/ \E p \in Pods, d \in 0..MaxDepth, n \in Nodes, cts \in WatchedPods :
          AddFunc(p, d, n, cts, FALSE)
    \/ \E p \in Pods, o \in Revisions, n \in Revisions, cts \in WatchedPods :
          UpdateFunc(p, o, n, <<>>, cts, FALSE)
    \/ \E p \in Pods : DeletePod(p)
    \/ \E i \in Levels : DeleteObject(i)
    \/ Tick
    \/ \E k \in Keys : TimerFire(k)
    \/ \E w \in Workers : Get(w)
    \/ \E w \in Workers, f \in Faults : Process(w, f)
    \/ \E w \in Workers : DoneStep(w)

Spec == Init /\ [][Next]_vars

\* The design's extension: N workers run processEnqueuedItem on the one queue.
InitN ==
    InitWith([workers |-> Workers, pods |-> {"pod-a"}, depths |-> 0..MaxDepth,
              nodes |-> Nodes,
              start |-> "get", track |-> {}])

SpecN == InitN /\ [][Next]_vars

(***************************************************************************)
(* Vocabulary of the properties.                                           *)
(***************************************************************************)
PodOfKey(key) == SplitMetaNamespaceKey(key).name
\* The owner depth of a cached pod.
DepthOf(pod) == CHOOSE d \in 0..MaxDepth : pod.ownerRef = OwnerRefTo(d)
\* The ownerless object at the top of a pod's owner chain.
TopOf(pod) ==
    IF pod.ownerRef = NoOwner
    THEN [kind |-> pod.kind, name |-> pod.name, namespace |-> pod.namespace]
    ELSE [kind |-> ObjKind(1), name |-> ObjName(1), namespace |-> Namespace]
\* Worker w takes the Process step.
Processes(w) == wpc[w] = "process" /\ wpc'[w] = "done"
Holders(k) == {w \in Workers : wpc[w] \in {"process", "done"} /\ wkey[w] = k}
Occurrences(q, k) == Cardinality({i \in 1..Len(q.queue) : q.queue[i] = k})

(***************************************************************************)
(* C1.  A pass over the key of a cached pod in which every call succeeds   *)
(* (the cache lookup, each owner fetch, the node read and the patch)       *)
(* issues exactly one patch call; that call targets the ownerless top of   *)
(* the pod's owner chain, not the pod or an intermediate owner, and        *)
(* excludes the architecture label value of the pod's node; the pass then  *)
(* signals Forget alone, so the key's retry counter is clear and no        *)
(* backoff timer is set by it.                                             *)
(***************************************************************************)
C1_OnePatchOfTheTop ==
    [][\A w \in Workers :
        (/\ Processes(w)
         /\ podCache[PodOfKey(wkey[w])] # NoPod
         /\ Failed(pass'[w].calls) = {}
         /\ CallsOf(pass'[w].calls, "lister") # {})
        => LET pod == podCache[PodOfKey(wkey[w])]
               calls == pass'[w].calls
               top == TopOf(pod)
           IN /\ Cardinality(CallsOf(calls, "patch")) = 1
              /\ \A i \in CallsOf(calls, "patch") :
                    /\ calls[i].resource = lowercaseAndPluralise(top.kind)
                    /\ calls[i].name = top.name
                    /\ calls[i].namespace = top.namespace
                    /\ calls[i].arg.operator = "NotIn"
                    /\ calls[i].arg.key = ArchLabel
                    /\ calls[i].arg.values =
                         <<GetLabel(NodeLabels(pod.nodeName), ArchLabel)>>
                    /\ DepthOf(pod) >= 1 => calls[i].name # pod.name
                    /\ \A l \in 2..MaxDepth : calls[i].name # ObjName(l)
              /\ pass'[w].signals = <<"Forget">>
              /\ workqueue'.failures[wkey[w]] = 0
              /\ workqueue'.waitingForAdd = workqueue.waitingForAdd]_vars

\* A pass over a depth-2 pod on node-arm has patched the Deployment with the
\* exclusion of arm64.
C1_Witness ==
    \E w \in Workers :
        /\ wpc[w] = "done"
        /\ pass[w].signals = <<"Forget">>
        /\ Cardinality(CallsOf(pass[w].calls, "get")) = 2
        /\ \E i \in CallsOf(pass[w].calls, "patch") :
              /\ pass[w].calls[i].err = ""
              /\ pass[w].calls[i].resource = "deployments"
              /\ pass[w].calls[i].name = "deploy-a"
              /\ pass[w].calls[i].arg.values = <<"arm64">>

(***************************************************************************)
(* C2.  For a cached pod whose owner chain has depth N: when every owner   *)
(* on the chain exists and no fetch fails, getOriginControllerObject       *)
(* returns the kind, name and namespace of the ownerless top after exactly *)
(* N fetches, one per owner from the nearest to the top and none beyond;   *)
(* otherwise it returns the error of the first failing fetch, made no      *)
(* fetch after it, and returns no object.                                  *)
(***************************************************************************)
C2_ResolveTop ==
    \A p \in Pods : podCache[p] # NoPod =>
        \A f \in Faults :
            LET pod == podCache[p]
                n == DepthOf(pod)
                r == getOriginControllerObject(api, pod, pod.kind, f, 1)
                \* hop h fetches level n - h + 1
                bad == {h \in 1..n : (n - h + 1) \notin api \/ f = <<"fetch", h>>}
            IN /\ \A h \in 1..Len(r.calls) :
                     /\ r.calls[h].op = "get"
                     /\ r.calls[h].name = ObjName(n - h + 1)
                     /\ r.calls[h].resource = lowercaseAndPluralise(ObjKind(n - h + 1))
               /\ IF bad = {}
                  THEN /\ r.err = ""
                       /\ r.cobj = TopOf(pod)
                       /\ Len(r.calls) = n
                       /\ Failed(r.calls) = {}
                  ELSE LET first == CHOOSE h \in bad : \A g \in bad : h <= g
                       IN /\ r.err # ""
                          /\ r.cobj = NoCobj
                          /\ Len(r.calls) = first
                          /\ Failed(r.calls) = {first}
                          /\ r.calls[first].err = r.err

\* A pass has resolved a depth-2 chain with two successful fetches, rs-a and
\* then deploy-a, and gone on to the node read.
C2_Witness ==
    \E w \in Workers :
        /\ wpc[w] = "done"
        /\ Len(pass[w].calls) >= 4
        /\ pass[w].calls[2].op = "get" /\ pass[w].calls[2].name = "rs-a"
        /\ pass[w].calls[2].err = ""
        /\ pass[w].calls[3].op = "get" /\ pass[w].calls[3].name = "deploy-a"
        /\ pass[w].calls[3].err = ""
        /\ pass[w].calls[4].op = "getNode"

(***************************************************************************)
(* The classifier specification: notifications only, each recorded with    *)
(* the pod it carried and what handleObject did, until the record is read. *)
(* The pods carry up to MaxContainers containers in every combination of   *)
(* state and log.                                                          *)
(***************************************************************************)
\* The record of the latest notification is read and cleared.
Observed ==
    /\ lastNotif # NoNotif
    /\ lastNotif' = NoNotif
    /\ UNCHANGED <<workqueue, podCache, api, setup, wpc, wkey, pass, lastDelay,
                   elapsed, taint,
                   lifecycle, history>>

InitClassify ==
    InitWith([workers |-> {}, pods |-> Pods, depths |-> {MaxDepth},
              nodes |-> {"node-arm"},
              start |-> "get", track |-> {}])

NotifiedPods == SeqsUpTo(Containers, MaxContainers)

NextClassify ==
    \/ /\ lastNotif = NoNotif
       /\ \E p \in Pods, cts \in NotifiedPods :
             AddFunc(p, MaxDepth, "node-arm", cts, TRUE)
    \/ /\ lastNotif = NoNotif
       /\ \E p \in Pods, o \in Revisions, n \in Revisions :
             \E cts \in (IF o = n THEN {<<>>} ELSE NotifiedPods) :
                 UpdateFunc(p, o, n, <<>>, cts, TRUE)
    \/ \E p \in Pods : DeletePod(p)
    \/ Observed

SpecClassify == InitClassify /\ [][NextClassify]_vars

\* Container i is waiting in crash-loop.
InCrashLoop(cts, i) ==
    cts[i].state.waiting /\ cts[i].state.reason = CrashLoopBackOff
\* Container i's log can be read and equals the signature.
LogIsSignature(cts, i) ==
    /\ ~cts[i].log.streamErr
    /\ ~cts[i].log.readErr
    /\ cts[i].log.content = errorMessage

(***************************************************************************)
(* C3.  A notification enqueues the pod's key if and only if some          *)
(* container that is itself waiting in CrashLoopBackOff has a readable log *)
(* equal to the signature.                                                 *)
(***************************************************************************)
C3_EnqueueIffCrashLoopLogMatches ==
    lastNotif.classified =>
        (lastNotif.enqueued <=>
            \E i \in 1..Len(lastNotif.containers) :
                /\ InCrashLoop(lastNotif.containers, i)
                /\ LogIsSignature(lastNotif.containers, i))

(***************************************************************************)
(* C4.  Adding a key that is already queued changes nothing: however many  *)
(* matching notifications add a key before any Get, the queue holds it     *)
(* exactly once.                                                           *)
(***************************************************************************)
C4_AddOfQueuedKeyIsNoOp ==
    /\ [](\A k \in Keys : Occurrences(workqueue, k) <= 1)
    /\ [][\A k \in Keys :
            (/\ InQueue(workqueue, k)
             /\ lastNotif' # lastNotif
             /\ lastNotif'.pod = PodOfKey(k))
            => workqueue' = workqueue]_vars

\* The latest notification enqueued pod-a's key while that key was queued
\* ahead of pod-b's.
C4_Witness ==
    /\ lastNotif.pod = "pod-a"
    /\ lastNotif.enqueued
    /\ workqueue.queue = <<MetaNamespaceKeyFunc(PodObject("pod-a", 0, "node-arm")),
                           MetaNamespaceKeyFunc(PodObject("pod-b", 0, "node-arm"))>>

(***************************************************************************)
(* C5.  With N workers on the one queue, no two workers hold the same key  *)
(* between Get and Done, whatever notifications and backoff timers add     *)
(* meanwhile.                                                              *)
(***************************************************************************)
C5_OneWorkerPerKey == \A k \in Keys : Cardinality(Holders(k)) <= 1

\* Worker 2 holds a key that was added again during its pass, and worker 1
\* is idle in Get.
C5_Witness ==
    \E k \in Keys :
        /\ wpc[1] = "get"
        /\ wpc[2] \in {"process", "done"}
        /\ wkey[2] = k
        /\ k \in workqueue.dirty

(***************************************************************************)
(* C6.  A key added while a worker holds it is neither queued nor handed   *)
(* to another worker, and after the holder's Done it is dequeued again,    *)
(* whether the pass ended in Forget or in AddRateLimited.                  *)
(***************************************************************************)
Coalesced(k) == k \in workqueue.processing /\ k \in workqueue.dirty

C6_CoalescedAddIsProcessedAgain ==
    /\ [](\A k \in Keys : Coalesced(k) =>
             ~InQueue(workqueue, k) /\ Cardinality(Holders(k)) = 1)
    /\ \A k \in Keys :
          Coalesced(k) ~> (k \in workqueue.processing /\ k \notin workqueue.dirty)

\* The key was added during a pass that has ended in Forget and awaits Done.
C6_Witness ==
    \E w \in Workers :
        /\ wpc[w] = "done"
        /\ pass[w].signals = <<"Forget">>
        /\ Coalesced(wkey[w])

(***************************************************************************)
(* C7.  lastDelay[k] is the delay the rate limiter gave the key at its     *)
(* last failed pass (0 after a pass that ended in Forget), elapsed[k] the  *)
(* time passed since then.  A key is tainted from a notification's Add     *)
(* that arrives while the key is being processed or waits on its backoff   *)
(* timer, until no add and no timer of it is outstanding.                  *)
(***************************************************************************)
\* A worker's pass over a key ends in AddRateLimited.
FailedPass(w) == Processes(w) /\ pass'[w].signals = <<"AddRateLimited">>

\* C7 as the specification states it: a key requeued with AddRateLimited is
\* never ready (dequeue-able) before the whole of its backoff delay has
\* elapsed.
C7_NotReadyBeforeDelay ==
    \A k \in Keys :
        (InQueue(workqueue, k) /\ lastDelay[k] > 0) => elapsed[k] = lastDelay[k]

\* C7, amended: a key requeued with AddRateLimited, and not added by a
\* notification while it was processed or waiting, is not dequeue-able
\* before its backoff delay has elapsed; the timer of such a key is set to
\* the limiter's delay; and over consecutive failed passes of a key with no
\* Forget between them the per-key delay never decreases, strictly
\* increases while it is below the ceiling, and never exceeds the ceiling.
C7_BackoffOfUndisturbedKey ==
    /\ [](\A k \in Keys :
            (InQueue(workqueue, k) /\ lastDelay[k] > 0 /\ ~taint[k])
                => elapsed[k] = lastDelay[k])
    /\ [][\A w \in Workers : FailedPass(w) =>
            LET k == wkey[w] IN
            /\ lastDelay'[k] >= lastDelay[k]
            /\ lastDelay[k] < MaxDelay => lastDelay'[k] > lastDelay[k]
            /\ lastDelay'[k] <= MaxDelay
            /\ ~taint[k] => /\ workqueue'.waitingForAdd[k] = lastDelay'[k]
                            /\ ~InQueue(workqueue', k)]_vars

\* An undisturbed key is ready again after waiting the ceiling delay: its
\* earlier failures were given shorter delays.
C7_Witness ==
    \E k \in Keys :
        /\ InQueue(workqueue, k)
        /\ ~taint[k]
        /\ lastDelay[k] = MaxDelay
        /\ elapsed[k] = MaxDelay
        /\ workqueue.failures[k] = MaxFailures

(***************************************************************************)
(* C8.  If the top-level controller object has been deleted, so that the   *)
(* fetch or the patch of it returns not-found, the pass forgets the key    *)
(* and does not requeue it.                                                *)
(***************************************************************************)
C8_NotFoundTargetIsForgotten ==
    \A w \in Workers :
        (/\ wpc[w] = "done"
         /\ \E i \in CallsOf(pass[w].calls, "get") \cup CallsOf(pass[w].calls, "patch") :
               /\ pass[w].calls[i].name = ObjName(1)
               /\ pass[w].calls[i].err = "NotFound")
        => pass[w].signals = <<"Forget">>

(***************************************************************************)
(* C9.  A pass over a malformed key, or over a key whose pod is absent     *)
(* from the cache, makes no owner fetch, no node read and no patch call    *)
(* and returns no error, so the key is forgotten: its retry counter is     *)
(* cleared, no timer is set, and after Done it is neither queued nor being *)
(* processed unless a notification added it meanwhile.                     *)
(***************************************************************************)
\* Keys that do not split into a namespace and a name.
MalformedKeys == {<<>>, <<"ns", "/", "pod-a", "/", "x">>, <<"/">>}

\* The pass record of a key whose pod is not in the cache.
PodMissing(p) ==
    /\ Len(p.calls) >= 1
    /\ p.calls[1].op = "lister"
    /\ p.calls[1].err = "NotFound"

C9_MissingOrMalformedIsForgotten ==
    /\ [](\A k \in MalformedKeys, f \in Faults :
            /\ SplitMetaNamespaceKey(k).err
            /\ reSchedulePod(k, podCache, api, f) = [err |-> "", calls |-> <<>>])
    /\ [][\A w \in Workers :
            (Processes(w) /\ PodMissing(pass'[w])) =>
                /\ podCache[PodOfKey(wkey[w])] = NoPod
                /\ Len(pass'[w].calls) = 1
                /\ pass'[w].signals = <<"Forget">>
                /\ workqueue'.failures[wkey[w]] = 0
                /\ workqueue'.waitingForAdd = workqueue.waitingForAdd
                /\ workqueue'.queue = workqueue.queue]_vars
    /\ [][\A w \in Workers :
            (/\ wpc[w] = "done" /\ wpc'[w] = "get"
             /\ PodMissing(pass[w])
             /\ wkey[w] \notin workqueue.dirty) =>
                /\ wkey[w] \notin workqueue'.processing
                /\ ~InQueue(workqueue', wkey[w])
                /\ workqueue'.waitingForAdd = workqueue.waitingForAdd]_vars

\* A pass found its pod deleted from the cache and ended there.
C9_Witness ==
    \E w \in Workers :
        /\ wpc[w] = "done"
        /\ podCache[PodOfKey(wkey[w])] = NoPod
        /\ PodMissing(pass[w])
        /\ pass[w].signals = <<"Forget">>

(***************************************************************************)
(* C10.  A pass in which an owner fetch, the node read or the patch fails  *)
(* signals AddRateLimited and not Forget: the key's retry counter is       *)
(* raised and a backoff timer is pending for it.  The worker is not        *)
(* stopped by it: its next step is the deferred Done, after which it is    *)
(* back at Get.                                                            *)
(***************************************************************************)
\* The pass record holds a failed owner fetch, node read or patch.
ReconcileFailed(p) ==
    \E i \in Failed(p.calls) : p.calls[i].op \in {"get", "getNode", "patch"}

C10_FailureIsRequeuedAndLoopGoesOn ==
    /\ [][\A w \in Workers :
            (Processes(w) /\ ReconcileFailed(pass'[w])) =>
                /\ pass'[w].signals = <<"AddRateLimited">>
                /\ workqueue'.failures[wkey[w]] >= 1
                /\ workqueue'.failures[wkey[w]] >= workqueue.failures[wkey[w]]
                /\ workqueue'.waitingForAdd[wkey[w]] # NotWaiting]_vars
    /\ [][\A w \in Workers :
            (wpc[w] = "done" /\ wpc'[w] # "done") => wpc'[w] = "get"]_vars
    /\ [](\A w \in Workers :
            /\ wpc[w] # "exited"
            /\ (wpc[w] = "done" /\ ReconcileFailed(pass[w])) => ENABLED DoneStep(w))

\* After a failed patch the key waits on its backoff timer and the worker is
\* about to go on.
C10_Witness ==
    \E w \in Workers :
        /\ wpc[w] = "done"
        /\ pass[w].signals = <<"AddRateLimited">>
        /\ \E i \in CallsOf(pass[w].calls, "patch") : pass[w].calls[i].err = "Error"
        /\ workqueue.waitingForAdd[wkey[w]] > 0

(***************************************************************************)
(* The update specification: notifications for one pod, each update with   *)
(* the containers of its old and of its new object, recorded until read.   *)
(***************************************************************************)
InitUpdate ==
    InitWith([workers |-> {}, pods |-> {"pod-a"}, depths |-> {MaxDepth},
              nodes |-> {"node-arm"},
              start |-> "get", track |-> {}])

UpdatedPods == SeqsUpTo(WatchedContainers, MaxContainers)

NextUpdate ==
    \/ /\ lastNotif = NoNotif
       /\ \E p \in Pods, cts \in UpdatedPods :
             AddFunc(p, MaxDepth, "node-arm", cts, TRUE)
    \/ /\ lastNotif = NoNotif
       /\ \E p \in Pods, o \in Revisions, n \in Revisions :
             \E old \in UpdatedPods, cts \in UpdatedPods :
                 UpdateFunc(p, o, n, old, cts, TRUE)
    \/ \E p \in Pods : DeletePod(p)
    \/ Observed

SpecUpdate == InitUpdate /\ [][NextUpdate]_vars

\* Some container of the pod is in crash-loop and some container's log is
\* the signature: what handleObject enqueues on.
Matches(cts) ==
    /\ \E i \in 1..Len(cts) : InCrashLoop(cts, i)
    /\ \E j \in 1..Len(cts) : LogIsSignature(cts, j)

(***************************************************************************)
(* C11.  An update whose old and new objects carry the same revision is    *)
(* discarded: handleObject is not run, no log is read and the queue is     *)
(* unchanged.  Any other notification is classified, and on the containers *)
(* of its new object alone: it enqueues exactly when those match, and      *)
(* reads logs of those containers only.                                    *)
(***************************************************************************)
C11_SameRevisionIsDiscarded ==
    /\ [](lastNotif.sameRv =>
            /\ ~lastNotif.classified
            /\ ~lastNotif.enqueued
            /\ lastNotif.reads = <<>>)
    /\ []((lastNotif.pod # "" /\ ~lastNotif.sameRv) =>
            /\ lastNotif.classified
            /\ lastNotif.enqueued <=> Matches(lastNotif.containers)
            /\ \A i \in 1..Len(lastNotif.reads) :
                  lastNotif.reads[i] \in 1..Len(lastNotif.containers)
            /\ (\A i \in 1..Len(lastNotif.containers) :
                   ~InCrashLoop(lastNotif.containers, i))
                  => lastNotif.reads = <<>>)
    /\ [][(lastNotif' # lastNotif /\ lastNotif'.sameRv)
            => workqueue' = workqueue]_vars

\* An update with an unchanged revision carried a pod that matches, and the
\* queue is empty.
C11_Witness ==
    /\ lastNotif.pod = "pod-a"
    /\ lastNotif.sameRv
    /\ Matches(lastNotif.containers)
    /\ workqueue.queue = <<>>
    /\ workqueue.dirty = {}

(***************************************************************************)
(* C16.  A log that cannot be fetched or read does not end the scan: of a  *)
(* pod with a crash-looping container, the containers after the failed one *)
(* are still read, in order, up to the first whose log is the signature,   *)
(* and that one enqueues the key; when no log is the signature every       *)
(* container is read, and when every log read fails nothing is enqueued.   *)
(***************************************************************************)
LogFailed(cts, i) == cts[i].log.streamErr \/ cts[i].log.readErr

C16_LogErrorSkipsContainer ==
    lastNotif.classified =>
        LET cts == lastNotif.containers
            n == Len(cts)
            crash == \E i \in 1..n : InCrashLoop(cts, i)
            sig == {j \in 1..n : LogIsSignature(cts, j)}
        IN /\ (crash /\ sig # {}) =>
                /\ lastNotif.enqueued
                /\ \E m \in sig :
                      /\ \A j \in sig : m <= j
                      /\ lastNotif.reads = [i \in 1..m |-> i]
           /\ (crash /\ sig = {}) =>
                /\ ~lastNotif.enqueued
                /\ {lastNotif.reads[i] : i \in 1..Len(lastNotif.reads)} = 1..n
           /\ (\A j \in 1..n : LogFailed(cts, j)) => ~lastNotif.enqueued

\* The first container is in crash-loop and its log could not be fetched;
\* the second one's log is the signature, and the key was enqueued.
C16_Witness ==
    /\ lastNotif.classified
    /\ Len(lastNotif.containers) = 2
    /\ InCrashLoop(lastNotif.containers, 1)
    /\ lastNotif.containers[1].log.streamErr
    /\ LogIsSignature(lastNotif.containers, 2)
    /\ lastNotif.enqueued
    /\ lastNotif.reads = <<1, 2>>
    /\ InQueue(workqueue, MetaNamespaceKeyFunc(PodObject(lastNotif.pod, 0, "node-arm")))

(***************************************************************************)
(* C20.  A pass over a pod whose node is read without error and carries no *)
(* architecture label still issues its one patch, excluding the empty      *)
(* string, and when the patch succeeds the pass signals Forget: nothing is *)
(* reported as an error and the key is not requeued.                       *)
(***************************************************************************)
\* The node of the key's cached pod has no architecture label.
OnUnlabelledNode(k) ==
    /\ podCache[PodOfKey(k)] # NoPod
    /\ ArchLabel \notin DOMAIN NodeLabels(podCache[PodOfKey(k)].nodeName)

C20_UnlabelledNodePatchesEmptyValue ==
    [][\A w \in Workers :
        (/\ Processes(w)
         /\ OnUnlabelledNode(wkey[w])
         /\ \E i \in CallsOf(pass'[w].calls, "getNode") : pass'[w].calls[i].err = "")
        => LET calls == pass'[w].calls IN
           /\ Cardinality(CallsOf(calls, "patch")) = 1
           /\ \A i \in CallsOf(calls, "patch") :
                 /\ calls[i].arg.values = <<"">>
                 /\ calls[i].err = "" =>
                       /\ pass'[w].err = ""
                       /\ pass'[w].signals = <<"Forget">>
                       /\ workqueue'.failures[wkey[w]] = 0
                       /\ workqueue'.waitingForAdd = workqueue.waitingForAdd]_vars

\* A pass over a pod on node-bare has patched the top of its chain with the
\* exclusion of the empty value and ended in Forget.
C20_Witness ==
    \E w \in Workers :
        /\ wpc[w] = "done"
        /\ OnUnlabelledNode(wkey[w])
        /\ pass[w].signals = <<"Forget">>
        /\ \E i \in CallsOf(pass[w].calls, "patch") :
              /\ pass[w].calls[i].err = ""
              /\ pass[w].calls[i].arg.values = <<"">>

(***************************************************************************)
(* C19.  Every item a worker takes gets exactly one outcome signal, Forget *)
(* or AddRateLimited, then exactly one Done, and only then does the worker *)
(* call Get again: the keys in the processing set are exactly those held   *)
(* by workers between Get and Done, so a worker in Get holds none.         *)
(***************************************************************************)
C19_OneOutcomeThenOneDone ==
    /\ [](\A w \in Workers :
            /\ wpc[w] = "get" => (wkey[w] = NoKey /\ pass[w].signals = <<>>)
            /\ wpc[w] = "process" => pass[w].signals = <<>>
            /\ wpc[w] = "done" =>
                  /\ Len(pass[w].signals) = 1
                  /\ pass[w].signals[1] \in {"Forget", "AddRateLimited"})
    /\ [](workqueue.processing =
             {wkey[w] : w \in {v \in Workers : wpc[v] \in {"process", "done"}}})
    /\ [][\A w \in Workers :
            /\ (wpc'[w] = "get" /\ wpc[w] # "get") =>
                  /\ wpc[w] = "done"
                  /\ wkey[w] \in workqueue.processing
                  /\ wkey[w] \notin workqueue'.processing
            /\ (wpc'[w] = "done" /\ wpc[w] # "done") => wpc[w] = "process"]_vars

\* The worker is back in Get and holds nothing; the key of its failed pass
\* has waited its backoff and is queued again.
C19_Witness ==
    \E k \in Keys :
        /\ wpc[1] = "get"
        /\ wkey[1] = NoKey
        /\ workqueue.processing = {}
        /\ workqueue.failures[k] > 0
        /\ lastDelay[k] > 0
        /\ InQueue(workqueue, k)

\* The reconciliation loop runs (controller.go:110): a worker that can take
\* an item takes it, a pass that was started ends, and the deferred Done is
\* executed.  A started pass can always end (its first call, the cache
\* read, may fail at once), so weak fairness on that one outcome is enough
\* to make every pass end, with whichever outcome.
LiveSpec ==
    /\ Init /\ [][Next]_vars
    /\ WF_vars(Get(1))
    /\ WF_vars(Process(1, <<"lister">>))
    /\ WF_vars(DoneStep(1))

\* LiveSpec, and time passes: the clock of the delaying queue advances and
\* a timer that is due adds its key.
LiveSpecRetry ==
    /\ LiveSpec
    /\ WF_vars(Tick)
    /\ \A k \in Keys : WF_vars(TimerFire(k))

(***************************************************************************)
(* C18.  There is no give-up threshold: every pass of a key that ends in   *)
(* an error is followed by another pass of that key, however many times    *)
(* the key has failed before (the queue is not shut down in LiveSpecRetry).*)
(***************************************************************************)
C18_FailedPassIsRetried ==
    \A k \in Keys :
        (\E w \in Workers : wpc[w] = "done" /\ wkey[w] = k /\ pass[w].err # "")
            ~> (\E w \in Workers : wpc[w] = "process" /\ wkey[w] = k)

\* A pass has failed for a key whose retry counter and delay are at their
\* ceilings already.
C18_Witness ==
    \E w \in Workers :
        /\ wpc[w] = "done"
        /\ pass[w].err # ""
        /\ pass[w].signals = <<"AddRateLimited">>
        /\ workqueue.failures[wkey[w]] = MaxFailures
        /\ lastDelay[wkey[w]] = MaxDelay
        /\ workqueue.waitingForAdd[wkey[w]] = MaxDelay
        /\ ~workqueue.shuttingDown

(***************************************************************************)
(* The life of Run (controller.go:98-114): it starts the informers, waits  *)
(* for the pod cache to sync and then loops over processEnqueuedItem.  The *)
(* caller owns the stop channel.                                           *)
(***************************************************************************)
\* informerFactory.Start, controller.go:102: the pod informer finishes its
\* first list and reports HasSynced; an informer that was stopped does not.
CacheSynced ==
    /\ ~hasSynced
    /\ ~stopCh
    /\ hasSynced' = TRUE
    /\ UNCHANGED <<workqueue, podCache, api, setup, wpc, wkey, pass, lastDelay,
                   elapsed, taint, lastNotif, stopCh, history>>

\* The caller of Run closes the stop channel it made (main.go:42-43).
CloseStop ==
    /\ ~stopCh
    /\ stopCh' = TRUE
    /\ UNCHANGED <<workqueue, podCache, api, setup, wpc, wkey, pass, lastDelay,
                   elapsed, taint, lastNotif, hasSynced, history>>

\* A wait for the cache that does not ask whether the cache has synced.
WaitForCacheSyncUnguarded(w) ==
    /\ w \in setup.workers
    /\ wpc[w] = "sync"
    /\ wpc' = [wpc EXCEPT ![w] = "get"]
    /\ UNCHANGED <<workqueue, podCache, api, setup, wkey, pass, lastDelay,
                   elapsed, taint, lastNotif, lifecycle, history>>

\* cache.WaitForCacheSync returns true, controller.go:106: the cache has
\* synced, and Run enters its loop (line 110).
WaitForCacheSync(w) ==
    /\ w \in setup.workers
    /\ wpc[w] = "sync"
    /\ hasSynced
    /\ wpc' = [wpc EXCEPT ![w] = "get"]
    /\ UNCHANGED <<workqueue, podCache, api, setup, wkey, pass, lastDelay,
                   elapsed, taint, lastNotif, lifecycle, history>>

\* cache.WaitForCacheSync returns false, controller.go:106-108: the stop
\* channel was closed during the wait.  Run returns its error and the
\* deferred ShutDown of line 100 is executed.
SyncFailed(w) ==
    /\ w \in setup.workers
    /\ wpc[w] = "sync"
    /\ stopCh
    /\ wpc' = [wpc EXCEPT ![w] = "failed"]
    /\ workqueue' = ShutDown(workqueue)
    /\ UNCHANGED <<podCache, api, setup, wkey, pass, lastDelay, elapsed, taint,
                   lastNotif, lifecycle, history>>

\* A panic while an item is processed.  It unwinds through the deferred
\* Done of the item (controller.go:123) and out of the loop of line 110,
\* through the deferred ShutDown of Run (line 100) to the HandleCrash of
\* line 99, which reports it; the loop is not entered again.
Panic(w) ==
    /\ wpc[w] = "process"
    /\ LET q == ShutDown(Done(workqueue, wkey[w]))
       IN /\ workqueue' = q
          /\ taint' = Settle(q, taint)
    /\ pass' = [pass EXCEPT ![w] = [err |-> "panic", calls |-> <<>>, signals |-> <<>>]]
    /\ wpc' = [wpc EXCEPT ![w] = "crashed"]
    /\ wkey' = [wkey EXCEPT ![w] = NoKey]
    /\ UNCHANGED <<podCache, api, setup, lastDelay, elapsed, lastNotif,
                   lifecycle, history>>

\* Run from its start, for one pod owned through the whole chain.
InitRun ==
    InitWith([workers |-> {1}, pods |-> {"pod-a"}, depths |-> {MaxDepth},
              nodes |-> {"node-arm"},
              start |-> "sync", track |-> {}])

NextRun ==
    \/ Next
    \/ CacheSynced
    \/ CloseStop
    \/ \E w \in Workers : WaitForCacheSync(w)
    \/ \E w \in Workers : SyncFailed(w)

SpecRun == InitRun /\ [][NextRun]_vars

\* Run, and an item's processing may panic.
NextCrash ==
    \/ NextRun
    \/ \E w \in Workers : Panic(w)

SpecCrash == InitRun /\ [][NextCrash]_vars

\* Run with its steps taken: the wait for the cache returns when it can,
\* the loop runs as in LiveSpecRetry.
LiveSpecRun ==
    /\ SpecRun
    /\ WF_vars(WaitForCacheSync(1))
    /\ WF_vars(SyncFailed(1))
    /\ WF_vars(Get(1))
    /\ WF_vars(Process(1, <<"lister">>))
    /\ WF_vars(DoneStep(1))
    /\ WF_vars(Tick)
    /\ \A k \in Keys : WF_vars(TimerFire(k))

\* A worker holds a key.
HoldsKey(w) == wkey[w] # NoKey \/ pass[w] # EmptyPass

(***************************************************************************)
(* C15.  No key is dequeued or processed before the cache has reported     *)
(* that it is synced: until then no worker holds a key and the queue hands *)
(* none out, and Run enters its loop only on a synced cache.  When the     *)
(* wait fails, Run shuts the queue down and stays returned: no key is ever *)
(* processed, whatever the notifications have enqueued.                    *)
(***************************************************************************)
C15_NoKeyBeforeCacheSync ==
    /\ [](\A w \in setup.workers :
            (~hasSynced \/ wpc[w] \in {"sync", "failed"})
                => /\ ~HoldsKey(w)
                   /\ wpc[w] \in {"sync", "failed"}
                   /\ workqueue.processing = {})
    /\ [](\A w \in setup.workers : wpc[w] = "failed" => workqueue.shuttingDown)
    /\ [][\A w \in setup.workers :
            /\ wpc[w] = "sync" /\ wpc'[w] = "get" => hasSynced
            /\ wpc[w] = "sync" /\ wpc'[w] \notin {"sync", "get"}
                  => stopCh /\ wpc'[w] = "failed"
            /\ wpc[w] = "failed" => wpc'[w] = "failed"]_vars

\* The wait has failed on a cache that never synced while a notification
\* had enqueued a key, which stays in the queue.
C15_Witness ==
    /\ wpc[1] = "failed"
    /\ ~hasSynced
    /\ Len(workqueue.queue) > 0
    /\ workqueue.shuttingDown

(***************************************************************************)
(* C12.  After the stop channel is closed while Run is in its loop, the    *)
(* queue is shut down and the loop exits, also when the worker waits in    *)
(* Get on an empty queue at that time.                                     *)
(***************************************************************************)
C12_StopShutsDownAndExits ==
    (stopCh /\ wpc[1] \in {"get", "process", "done"})
        ~> (workqueue.shuttingDown /\ wpc[1] = "exited")

(***************************************************************************)
(* C13.  A panic raised while an item is processed does not end the loop:  *)
(* after it the worker is back at Get, on a queue that is not shut down.   *)
(***************************************************************************)
C13_PanicDoesNotEndLoop ==
    \A w \in Workers :
        pass[w].err = "panic" => wpc[w] = "get" /\ ~workqueue.shuttingDown

(***************************************************************************)
(* The patch specification: the reconciliation of one pod, with the node   *)
(* selector terms the cluster stores for the patched objects followed.     *)
(***************************************************************************)
InitPatch ==
    InitWith([workers |-> {1}, pods |-> {"pod-a"}, depths |-> {1, MaxDepth},
              nodes |-> {"node-arm", "node-amd"},
              start |-> "get", track |-> {"affinity"}])

SpecPatch == InitPatch /\ [][Next]_vars

InitRetry ==
    InitWith([workers |-> {1}, pods |-> {"pod-a"}, depths |-> {0, MaxDepth},
              nodes |-> {"node-arm", "node-amd"},
              start |-> "get", track |-> {"failed"}])

SpecRetry == InitRetry /\ [][Next]_vars

\* The patch call of a pass, where it made one.
PatchOf(calls) == calls[CHOOSE i \in CallsOf(calls, "patch") : TRUE]

(***************************************************************************)
(* C17.  A pass of a key that follows a failed pass of the key reads the   *)
(* pod from the cache again, and when it succeeds on a cached pod it has   *)
(* fetched every owner of the pod as cached now and read the pod's current *)
(* node, and its patch goes to the top of the current owner chain and      *)
(* excludes the architecture of the current node.                          *)
(***************************************************************************)
C17_RetryReadsAfresh ==
    [][\A w \in Workers :
          Processes(w) /\ lastFailed[wkey[w]] # <<>>
          => LET pod == podCache[PodOfKey(wkey[w])]
                 c == pass'[w].calls
             IN /\ Cardinality(CallsOf(c, "lister")) = 1
                /\ pass'[w].err = "" /\ pod # NoPod
                   => /\ Cardinality(CallsOf(c, "get")) = DepthOf(pod)
                      /\ \A i \in CallsOf(c, "getNode") : c[i].name = pod.nodeName
                      /\ Cardinality(CallsOf(c, "getNode")) = 1
                      /\ Cardinality(CallsOf(c, "patch")) = 1
                      /\ PatchOf(c).name = TopOf(pod).name
                      /\ PatchOf(c).resource = lowercaseAndPluralise(TopOf(pod).kind)
                      /\ PatchOf(c).arg =
                            patchJSON(GetLabel(NodeLabels(pod.nodeName), ArchLabel))]_vars

\* A pass has succeeded whose patch goes to another object and excludes
\* another architecture than the patch of the key's failed pass before it.
C17_Witness ==
    \E w \in Workers :
        /\ wpc[w] = "done"
        /\ pass[w].err = ""
        /\ CallsOf(pass[w].calls, "patch") # {}
        /\ CallsOf(lastFailed[wkey[w]], "patch") # {}
        /\ PatchOf(pass[w].calls).name # PatchOf(lastFailed[wkey[w]]).name
        /\ PatchOf(pass[w].calls).arg # PatchOf(lastFailed[wkey[w]]).arg

=============================================================================
